---- MODULE Spec2Model ----
(***************************************************************************)
(* Feed ingestion and caching pipeline of the recipe-card signage server:  *)
(* the /api/feed handler (api/feed.ts, server.js and the durable variant   *)
(* that mirrors the cache to /tmp/last.json), and the Player page that     *)
(* shows the cards it serves (src/pages/Player.tsx).                       *)
(*                                                                         *)
(* Strings are sequences of one-character strings; an optional value       *)
(* (undefined in the source) is the empty sequence, a present value v is   *)
(* the one-element sequence <<v>>.                                         *)
(***************************************************************************)
EXTENDS Integers, Sequences, FiniteSets, Bags, TLC

VARIABLES
    variant,    \* which handler file is deployed: "edge", "durable" or "node"
    clock,      \* Date.now(), in milliseconds
    cache,      \* the module-level `cache` (null or {data, timestamp})
    file,       \* the contents of /tmp/last.json
    inflight,   \* the handler invocations suspended at an await (a bag)
    resp,       \* the invocation that has just answered, until its response is sent
    lastStore,  \* history: the recipes and the `now` of the newest cache overwrite
    norm,       \* the item normalizer run on its own: items in, cards out
    player      \* the Player page: its React state and its localStorage

vars == <<variant, clock, cache, file, inflight, resp, lastStore, norm, player>>

----------------------------------------------------------------------------
(* Bounds of the model *)

\* handler invocations that can be suspended at the same time
NumReqs == 2
\* the clock reads 0 and the MaxTicks instants after it that end a cache
\* window or come one millisecond before its end
MaxTicks == 2
\* the longest feed document the source delivers
MaxFeedItems == 21
\* the most media:content entries of an item handed to the normalizer
MaxMediaEntries == 2
\* by how many characters the longest description texts exceed DescMax
MaxExcess == 2
\* the most complete items before, and after, a partial item in a feed
MaxAround == 1
\* the longest recipe list /api/feed answers the Player with
MaxRecipes == 3
\* the editions of the feed the Player sees during a visit
MaxEditions == 2
\* the calls of fetchRecipes that can be awaiting their answer at once
MaxPending == 2
\* how far below zero ArrowLeft presses on an empty list are followed
MaxBelow == 2

----------------------------------------------------------------------------
(* Program constants *)

DEFAULT_CACHE_MINUTES == 15
DEFAULT_MAX_ITEMS == 20
DescMax == 160

DEFAULT_FEED_URL == <<"b", "a">>
OTHER_FEED_URL == <<"o", "t">>
\* 'Untitled Recipe' and '/placeholder-recipe.jpg', shortened
UNTITLED == <<"U", "n", "t", "i", "t", "l", "e", "d">>
PLACEHOLDER == <<"/", "p", "l", "a", "c", "e", "h", "o", "l", "d", "e", "r">>
HASH == <<"#">>
ELLIPSIS == <<".", ".", ".">>
W1280 == <<"1", "2", "8", "0">>

----------------------------------------------------------------------------
(* JavaScript primitives used by the handler *)

Min(a, b) == IF a < b THEN a ELSE b
Max(a, b) == IF a > b THEN a ELSE b

None == <<>>
Some(v) == <<v>>
\* x || d for an optional string x: undefined and "" are both falsy
OrElse(x, d) == IF x = None \/ x[1] = <<>> THEN d ELSE x[1]
\* x?.['@_url'] as a string, "" when the element or the attribute is missing
Truthy(x) == x # None /\ x[1] # <<>>

\* slice(-end) in place of slice(0, end): the cards counted from the back
SliceLast(s, lim) ==
    IF lim.nan THEN <<>>
    ELSE IF lim.n < 0 THEN SubSeq(s, 1, Max(Len(s) + lim.n, 0))
    ELSE SubSeq(s, Len(s) - Min(lim.n, Len(s)) + 1, Len(s))

\* Array.prototype.slice(0, end): a NaN end counts as 0, a negative end counts
\* from the back
Slice(s, lim) ==
    IF lim.nan THEN <<>>
    ELSE IF lim.n < 0 THEN SubSeq(s, 1, Max(Len(s) + lim.n, 0))
    ELSE SubSeq(s, 1, Min(lim.n, Len(s)))

Num(n) == [nan |-> FALSE, n |-> n]
NaN == [nan |-> TRUE, n |-> 0]

Digit(c) ==
    CASE c = "0" -> 0 [] c = "1" -> 1 [] c = "2" -> 2 [] c = "3" -> 3
      [] c = "4" -> 4 [] c = "5" -> 5 [] c = "6" -> 6 [] c = "7" -> 7
      [] c = "8" -> 8 [] c = "9" -> 9 [] OTHER -> -1

RECURSIVE DigitsValue(_, _, _)
\* the value of the longest run of decimal digits of s from position i on,
\* acc so far; -1 when there is no digit at all
DigitsValue(s, i, acc) ==
    IF i > Len(s) \/ Digit(s[i]) < 0 THEN acc
    ELSE DigitsValue(s, i + 1, (IF acc < 0 THEN 0 ELSE acc) * 10 + Digit(s[i]))

\* parseInt(s): optional sign, then the leading digits; NaN when there are none
ParseInt(s) ==
    LET neg == Len(s) > 0 /\ s[1] = "-"
        start == IF Len(s) > 0 /\ s[1] \in {"-", "+"} THEN 2 ELSE 1
        v == DigitsValue(s, start, -1)
    IN IF v < 0 THEN NaN ELSE Num(IF neg THEN 0 - v ELSE v)

RECURSIVE ToDigits(_)
\* Number.prototype.toString() of a non-negative integer
ToDigits(n) ==
    LET d == <<"0", "1", "2", "3", "4", "5", "6", "7", "8", "9">>
    IN IF n < 10 THEN <<d[n + 1]>> ELSE ToDigits(n \div 10) \o <<d[(n % 10) + 1]>>

\* new Date(t).toISOString(): the instant t written out as text
ToISOString(t) == <<"T">> \o ToDigits(t)

\* String.prototype.includes
Includes(s, sub) ==
    \E i \in 1..(Len(s) - Len(sub) + 1) : SubSeq(s, i, i + Len(sub) - 1) = sub

RECURSIVE StripFrom(_, _)
\* description.replace(/<[^>]*>/g, ''): from position i on, the next match
\* starts at the first '<' that has a '>' somewhere after it and ends at the
\* first such '>'; the text before the match is kept and the search goes on
\* behind it
StripFrom(s, i) ==
    LET closes == {j \in 1..Len(s) : s[j] = ">"}
        opens == {a \in i..Len(s) : s[a] = "<" /\ \E j \in closes : j > a}
    IN IF opens = {} THEN SubSeq(s, i, Len(s))
       ELSE LET a == CHOOSE x \in opens : \A y \in opens : x <= y
                b == CHOOSE x \in closes : x > a /\ \A y \in closes : y > a => x <= y
            IN SubSeq(s, i, a - 1) \o StripFrom(s, b + 1)

StripTags(s) == StripFrom(s, 1)

\* the cut applied from DescMax characters on instead of past DescMax
TruncateInclusive(s) ==
    IF Len(s) >= DescMax THEN SubSeq(s, 1, DescMax) \o ELLIPSIS ELSE s

Truncate(s) == IF Len(s) > DescMax THEN SubSeq(s, 1, DescMax) \o ELLIPSIS ELSE s

----------------------------------------------------------------------------
(* Item normalizer: items.map(...) of the handler *)

\* a find that never matches: the 1280 preference left out
WideIndexNone(mc) == 0

\* mediaContent.find(...): the index of the first entry of width '1280' or
\* whose url contains '1280'; 0 when there is none
WideIndex(mc) ==
    LET hits == {i \in 1..Len(mc) :
                    \/ mc[i].width = Some(W1280)
                    \/ (mc[i].url # None /\ Includes(mc[i].url[1], W1280))}
    IN IF hits = {} THEN 0 ELSE CHOOSE i \in hits : \A j \in hits : i <= j

\* Array.isArray(c) ? c : [c]; a lone element arrives as list[1] with isArray false
MediaContent(c) == IF c.isArray THEN c.list ELSE <<c.list[1]>>

\* the enclosure looked at before media:content
ResolveImageEnclosureFirst(item) ==
    LET mc == MediaContent(item.content[1])
        w == WideIndex(mc)
    IN IF Truthy(item.thumbnail) THEN item.thumbnail[1]
       ELSE IF Truthy(item.enclosure) THEN item.enclosure[1]
       ELSE IF item.content # None THEN
           IF w > 0 THEN OrElse(mc[w].url, <<>>)
           ELSE IF Len(mc) > 0 /\ Truthy(mc[1].url) THEN mc[1].url[1]
           ELSE <<>>
       ELSE <<>>

ResolveImage(item) ==
    LET mc == MediaContent(item.content[1])
        w == WideIndex(mc)
        first ==
            IF Truthy(item.thumbnail) THEN item.thumbnail[1]
            ELSE IF item.content # None THEN
                IF w > 0 THEN OrElse(mc[w].url, <<>>)
                ELSE IF Len(mc) > 0 /\ Truthy(mc[1].url) THEN mc[1].url[1]
                ELSE <<>>
            ELSE <<>>
    IN IF first = <<>> /\ Truthy(item.enclosure) THEN item.enclosure[1] ELSE first

CleanDescription(item) == Truncate(StripTags(OrElse(item.description, <<>>)))

\* the record built without the placeholder image
NormalizeItemNoPlaceholder(item, at) ==
    [title |-> OrElse(item.title, UNTITLED),
     image |-> ResolveImage(item),
     description |-> CleanDescription(item),
     link |-> OrElse(item.link, HASH),
     pubDate |-> OrElse(item.pubDate, ToISOString(at))]

\* the record built from the raw title, link and pubDate
NormalizeItemNoDefaults(item, at) ==
    [title |-> OrElse(item.title, <<>>),
     image |-> OrElse(Some(ResolveImage(item)), PLACEHOLDER),
     description |-> CleanDescription(item),
     link |-> OrElse(item.link, <<>>),
     pubDate |-> OrElse(item.pubDate, <<>>)]

\* one RecipeItem; `at` is the instant new Date() reads while mapping
NormalizeItem(item, at) ==
    [title |-> OrElse(item.title, UNTITLED),
     image |-> OrElse(Some(ResolveImage(item)), PLACEHOLDER),
     description |-> CleanDescription(item),
     link |-> OrElse(item.link, HASH),
     pubDate |-> OrElse(item.pubDate, ToISOString(at))]

\* .filter(recipe => recipe.title && recipe.image)
Keep(recipe) == recipe.title # <<>> /\ recipe.image # <<>>

Normalize(items, at) ==
    SelectSeq([i \in 1..Len(items) |-> NormalizeItem(items[i], at)], Keep)

----------------------------------------------------------------------------
(* What the feed source can deliver *)

Entry(url, width) == [url |-> url, width |-> width]

\* the i-th <item> of the document served at url; the shapes cycle through the
\* image sources the normalizer knows, the link names the url and the position
ItemAt(url, i) ==
    LET base == [title |-> Some(<<"R">> \o ToDigits(i)),
                 description |-> Some(<<"<", "p", ">", "d", "<", "/", "p", ">">>),
                 link |-> Some(url \o ToDigits(i)),
                 pubDate |-> Some(<<"D">> \o ToDigits(i)),
                 thumbnail |-> None, content |-> None, enclosure |-> None]
    IN CASE i % 4 = 1 -> [base EXCEPT !.thumbnail = Some(url \o <<"t">>)]
         [] i % 4 = 2 ->
              [base EXCEPT !.content =
                  Some([isArray |-> TRUE,
                        list |-> <<Entry(Some(url \o <<"s">>), Some(<<"6", "4", "0">>)),
                                   Entry(Some(url \o <<"w">>), Some(W1280))>>])]
         [] i % 4 = 3 -> [base EXCEPT !.title = None, !.enclosure = Some(url \o <<"e">>)]
         [] OTHER -> [base EXCEPT !.title = Some(<<>>), !.description = None,
                                  !.link = None]

FEED_URLS == {DEFAULT_FEED_URL, OTHER_FEED_URL}

\* the longest document each url serves; shorter ones are its leading items
Document == [url \in FEED_URLS |-> [i \in 1..MaxFeedItems |-> ItemAt(url, i)]]

Items(url, n) == SubSeq(Document[url], 1, n)

\* the number of <item> elements of the RSS documents the source serves: one
\* (the parser then returns the item itself, not an array) or MaxFeedItems
FeedSizes == {1, MaxFeedItems}

\* the outcomes of `await fetch(feedUrl)` ... `parser.parse(xmlText)`:
\*   reject     fetch or response.text() rejects (network failure)
\*   malformed  the body is text on which the parser throws
\*   non2xx     an error status with an error document as body: fetch
\*              resolves all the same, and the parser throws on the body or
\*              returns a tree without rss.channel.item
\*   noshape    a body the parser reads to a tree without rss.channel.item
\*   rss        an RSS 2.0 document with n items
Outcomes ==
    {[src |-> "reject", throws |-> TRUE, n |-> 0],
     [src |-> "malformed", throws |-> TRUE, n |-> 0],
     [src |-> "non2xx", throws |-> TRUE, n |-> 0],
     [src |-> "non2xx", throws |-> FALSE, n |-> 0],
     [src |-> "noshape", throws |-> FALSE, n |-> 0]}
    \cup {[src |-> "rss", throws |-> FALSE, n |-> n] : n \in FeedSizes}

TransientErrors == {"reject", "malformed", "non2xx", "noshape"}

\* const items = parsed.rss?.channel?.item || []
ItemsOf(url, o) == IF o.src = "rss" THEN Items(url, o.n) ELSE <<>>

\* items.map is missing on the lone-item object, so the call throws
MapThrows(o) == o.src = "rss" /\ o.n = 1

----------------------------------------------------------------------------
(* Cache store *)

NoCache == [exists |-> FALSE, data |-> <<>>, timestamp |-> 0]

TTL(cacheMinutes) == cacheMinutes * 60 * 1000

\* the freshness test with the window in seconds instead of milliseconds
IsFreshSeconds(c, now) == c.exists /\ (now - c.timestamp) < DEFAULT_CACHE_MINUTES * 60

\* the freshness test with the boundary instant counted as fresh
IsFreshInclusive(c, now) ==
    c.exists /\ (now - c.timestamp) <= TTL(DEFAULT_CACHE_MINUTES)

\* cache && (now - cache.timestamp) < (cacheMinutes * 60 * 1000)
IsFresh(c, now) == c.exists /\ (now - c.timestamp) < TTL(DEFAULT_CACHE_MINUTES)

\* the overwrite storing only what the triggering request asked for
CacheUpdateLimit(recipes, q) ==
    [exists |-> TRUE, data |-> Slice(recipes, q.limit), timestamp |-> q.now]

\* the overwrite skipped when the stored entry is newer than this refresh
CacheUpdateKeepNewer(recipes, q) ==
    IF cache.exists /\ cache.timestamp > q.now THEN cache
    ELSE [exists |-> TRUE, data |-> Slice(recipes, Num(DEFAULT_MAX_ITEMS)),
          timestamp |-> q.now]

\* an empty result clearing the cache instead of being stored
CacheUpdateDropEmpty(recipes, q) ==
    IF recipes = <<>> THEN NoCache
    ELSE [exists |-> TRUE, data |-> Slice(recipes, Num(DEFAULT_MAX_ITEMS)),
          timestamp |-> q.now]

\* cache = { data: recipes.slice(0, DEFAULT_MAX_ITEMS), timestamp: now }
CacheUpdate(recipes, q) ==
    [exists |-> TRUE, data |-> Slice(recipes, Num(DEFAULT_MAX_ITEMS)),
     timestamp |-> q.now]

\* /tmp/last.json: absent, unparseable text, or the JSON text of a card array
NoFile == [state |-> "missing", cards |-> <<>>]
CorruptFile == [state |-> "corrupt", cards |-> <<>>]
JSONStringify(cards) == [state |-> "json", cards |-> cards]
ParseThrows(f) == f.state # "json"
JSONParse(f) == f.cards

----------------------------------------------------------------------------
(* Requests and responses *)

\* 0, TTL - 1, TTL, 2 * TTL - 1, 2 * TTL, ...
Instant(i) == ((i + 1) \div 2) * TTL(DEFAULT_CACHE_MINUTES) - (i % 2)
Instants == {Instant(i) : i \in 0..MaxTicks}

\* items.map(...).filter(...) of every list of items a url can deliver, mapped
\* at every instant
Normalized ==
    [url \in FEED_URLS |->
        [n \in {0} \cup FeedSizes |->
            [at \in Instants |-> Normalize(Items(url, n), at)]]]

----------------------------------------------------------------------------
(* Items handed to the normalizer when it is run on its own *)

\* the character c, n times
Rep(c, n) == [i \in 1..n |-> c]

\* an element or attribute: absent, empty, or with text
Titles == {None, Some(<<>>), Some(<<"R">>)}
Links == {None, Some(<<>>), Some(<<"l">>)}
PubDates == {None, Some(<<>>), Some(<<"D">>)}
Thumbnails == {None, Some(<<>>), Some(<<"t">>)}
Enclosures == {None, Some(<<>>), Some(<<"e">>)}

\* media:content entries: '@_url' and '@_width' each present or not
EntryUrls == {None, Some(<<>>), Some(<<"s">>), Some(<<"w">>), Some(<<"x">> \o W1280)}
EntryWidths == {None, Some(<<"6", "4", "0">>), Some(W1280)}
Entries == {Entry(u, w) : u \in EntryUrls, w \in EntryWidths}

\* item['media:content']: absent, one entry (an object), or an array of entries
Contents ==
    {None}
    \cup {Some([isArray |-> FALSE, list |-> <<e>>]) : e \in Entries}
    \cup {Some([isArray |-> TRUE, list |-> l]) :
             l \in UNION {[1..n -> Entries] : n \in 1..MaxMediaEntries}}

\* description texts: short ones with complete, nested and unclosed tags
ShortTexts ==
    {None, Some(<<>>),
     Some(<<"<", "p", ">", "d", "<", "/", "p", ">">>),
     Some(<<"a", "<", "b">>),
     Some(<<"a", ">", "b", "<">>),
     Some(<<"<", "a", "<", "b", ">", "c", ">">>),
     Some(<<"x", "<", "i", ">", "y", "<", "/", "i", ">", "z">>)}

\* description texts around DescMax characters: plain, wrapped in a tag, with
\* an unclosed '<' or a tag at the cutting point
LongTexts ==
    {Some(Rep("x", n)) : n \in (DescMax - 1)..(DescMax + MaxExcess)}
    \cup {Some(<<"<", "p", ">">> \o Rep("x", n) \o <<"<", "/", "p", ">">>) :
             n \in (DescMax - 1)..(DescMax + MaxExcess)}
    \cup {Some(Rep("x", DescMax - 1) \o <<"<">> \o Rep("y", n)) : n \in 0..MaxExcess}
    \cup {Some(Rep("x", DescMax - 1) \o <<"<", "b", ">">> \o Rep("y", n)) :
             n \in 0..MaxExcess}

FullItem ==
    [title |-> Some(<<"R">>),
     description |-> Some(<<"<", "p", ">", "d", "<", "/", "p", ">">>),
     link |-> Some(<<"l">>), pubDate |-> Some(<<"D">>),
     thumbnail |-> Some(<<"t">>), content |-> None, enclosure |-> None]

\* items that differ in their image sources
ImageItems ==
    {[FullItem EXCEPT !.title = ti, !.thumbnail = th, !.content = c, !.enclosure = e] :
        ti \in {None, Some(<<"R">>)}, th \in Thumbnails, c \in Contents,
        e \in Enclosures}

\* items that differ in their description
TextItems == {[FullItem EXCEPT !.description = d] : d \in LongTexts}

\* items with any of title, description, link, pubDate and image absent or empty
FieldItems ==
    {[FullItem EXCEPT !.title = ti, !.description = d, !.link = l, !.pubDate = pd,
                      !.thumbnail = th] :
        ti \in Titles, d \in {None, Some(<<>>), FullItem.description}, l \in Links,
        pd \in PubDates, th \in {None, FullItem.thumbnail}}

\* a feed with item `it` after a and before b items of the default document
Around(it, a, b) ==
    [j \in 1..(a + 1 + b) |-> IF j = a + 1 THEN it ELSE ItemAt(DEFAULT_FEED_URL, j)]

\* what the normalizer is handed: the items and the instant of the mapping,
\* one of the given instants
NormInputs(instants) ==
    {[items |-> <<it>>, at |-> 0] : it \in ImageItems \cup TextItems}
    \cup {[items |-> <<[FullItem EXCEPT !.description = d]>>, at |-> 0] :
             d \in ShortTexts}
    \cup {[items |-> Around(it, a, b), at |-> t] :
             it \in FieldItems, a \in 0..MaxAround, b \in 0..MaxAround,
             t \in instants}

\* the query strings of the requests: the `feed` and `limit` parameters
Query(feed, limit) == [feed |-> feed, limit |-> limit]
Queries ==
    {Query(None, Some(<<"1">>)),
     Query(None, Some(ToDigits(MaxFeedItems))),
     Query(Some(OTHER_FEED_URL), None)}

NoBody == [kind |-> "none", cards |-> <<>>]
Cards(cs) == [kind |-> "cards", cards |-> cs]
ErrorBody == [kind |-> "error", cards |-> <<>>]
EmptyBody == [kind |-> "empty", cards |-> <<>>]

\* an invocation: the method of its request, its locals (feedUrl, limit, now,
\* recipes), where it stands (pc), what the source gave it (src), whether its catch block was entered
\* (caught), its response (path, status, body) and the calls it has made
\* (fetches, overwrites, snapWrites, snapReads)
Fresh ==
    [pc |-> "none", method |-> "", feedUrl |-> <<>>, limit |-> Num(0), now |-> 0, recipes |-> <<>>,
     src |-> "", caught |-> FALSE, path |-> "", status |-> 0, body |-> NoBody,
     fetches |-> 0, overwrites |-> 0, snapWrites |-> 0, snapReads |-> 0]

\* the promise of fetch never settles: nothing of the invocation runs again
Hung == [Fresh EXCEPT !.pc = "hung", !.fetches = 1]

\* new Response(body, { status }) / res.status(status).json(body)
Respond(q, path, status, body) ==
    [q EXCEPT !.pc = "done", !.path = path, !.status = status, !.body = body]

Durable == variant = "durable"

\* await writeFile(...) / await readFile(...): the invocation suspends. Nothing
\* reads `now` after this point, nor what the source gave
Await(q, pc) ==
    [q EXCEPT !.pc = pc, !.now = 0, !.src = "",
              !.snapWrites = IF pc = "writing" THEN @ + 1 ELSE @,
              !.snapReads = IF pc = "reading" THEN @ + 1 ELSE @]

\* the status of the error object: 500, and 503 in the durable variant
ErrorStatus == IF Durable THEN 503 ELSE 500

\* the catch block answering with the whole entry, the limit forgotten
CatchUnsliced(q, c) ==
    LET e == [q EXCEPT !.caught = TRUE]
    IN IF c.exists THEN Respond(e, "fallback", 200, Cards(c.data))
       ELSE IF Durable THEN Await(e, "reading")
       ELSE Respond(e, "error", ErrorStatus, ErrorBody)

\* the catch block going to the snapshot before it looks at the cache
CatchSnapshotFirst(q, c) ==
    LET e == [q EXCEPT !.caught = TRUE]
    IN IF Durable THEN Await(e, "reading")
       ELSE IF c.exists THEN Respond(e, "fallback", 200, Cards(Slice(c.data, e.limit)))
       ELSE Respond(e, "error", ErrorStatus, ErrorBody)

\* the catch block answering every failure with the error object
CatchRethrows(q, c) ==
    Respond([q EXCEPT !.caught = TRUE], "error", ErrorStatus, ErrorBody)

\* the catch block, entered by invocation q while the cache is c
Catch(q, c) ==
    LET e == [q EXCEPT !.caught = TRUE]
    IN IF c.exists THEN Respond(e, "fallback", 200, Cards(Slice(c.data, e.limit)))
       ELSE IF Durable THEN Await(e, "reading")
       ELSE Respond(e, "error", ErrorStatus, ErrorBody)

\* the snapshot answered without the degraded status
SnapshotResponseOk(q, f) ==
    IF ParseThrows(f) THEN Respond(q, "error", ErrorStatus, ErrorBody)
    ELSE Respond(q, "snapshot", 200, Cards(Slice(JSONParse(f), q.limit)))

\* the inner try block of the durable variant, run on the file contents f
SnapshotResponse(q, f) ==
    IF ParseThrows(f) THEN Respond(q, "error", ErrorStatus, ErrorBody)
    ELSE Respond(q, "snapshot", 503, Cards(Slice(JSONParse(f), q.limit)))

----------------------------------------------------------------------------
(* The state machine *)

One(q) == SetToBag({q})
Suspended == BagToSet(inflight)

\* invocation q runs on and becomes q2: suspended again, or answered
Continue(q, q2) ==
    IF q2.pc = "done"
    THEN inflight' = inflight (-) One(q) /\ resp' = q2
    ELSE inflight' = (inflight (-) One(q)) (+) One(q2) /\ resp' = resp

\* a new invocation q runs up to its first await or its response
Enter(q) ==
    IF q.pc = "done"
    THEN inflight' = inflight /\ resp' = q
    ELSE inflight' = inflight (+) One(q) /\ resp' = resp

PriorSnapshot == JSONStringify(Slice(Normalize(Items(DEFAULT_FEED_URL, MaxFeedItems), 0),
                                     Num(DEFAULT_MAX_ITEMS)))

NoStore == [set |-> FALSE, recipes |-> <<>>, now |-> 0]

\* the Player page before its first effect has run: the useState defaults,
\* nothing in localStorage under 'recipes-cache', no fetch under way. `failed`
\* tells that a render threw, `loadedFrom` and `event` are history: where the
\* recipes shown were last loaded from and what happened last
Unmounted ==
    [recipes |-> <<>>, currentIndex |-> Num(0), loading |-> TRUE, offline |-> FALSE,
     isPreview |-> FALSE, storage |-> None, pending |-> 0, failed |-> FALSE,
     loadedFrom |-> "none", event |-> "none"]

\* the normalizer has been handed nothing
NoNorm == [items |-> <<>>, at |-> 0, done |-> FALSE, cards |-> <<>>]

Init ==
    /\ variant \in {"edge", "durable"}
    /\ clock = 0
    /\ cache = NoCache
    /\ file \in (IF variant = "durable" THEN {NoFile, CorruptFile, PriorSnapshot}
                 ELSE {NoFile})
    /\ inflight = EmptyBag
    /\ resp = Fresh
    /\ lastStore = NoStore
    /\ norm = NoNorm
    /\ player = Unmounted

\* Date.now() moves on
Tick ==
    /\ resp.pc = "none"
    /\ \E t \in Instants : t > clock /\ clock' = t
    /\ UNCHANGED <<variant, cache, file, inflight, resp, lastStore, norm, player>>

\* the response leaves the server
Send ==
    /\ resp.pc = "done"
    /\ resp' = Fresh
    /\ UNCHANGED <<variant, clock, cache, file, inflight, lastStore, norm, player>>

\* an OPTIONS request: the CORS preflight answer
Options ==
    /\ resp.pc = "none"
    /\ variant \in {"edge", "durable"}
    /\ Enter(Respond([Fresh EXCEPT !.method = "OPTIONS"], "options", 200, EmptyBody))
    /\ UNCHANGED <<variant, clock, cache, file, lastStore, norm, player>>

\* url.searchParams.get('feed') answered by the default whatever was asked
FeedParamIgnored(query) == DEFAULT_FEED_URL

\* url.searchParams.get('feed') || DEFAULT_FEED_URL
FeedParam(query) == OrElse(query.feed, DEFAULT_FEED_URL)

\* parseInt(url.searchParams.get('limit') || DEFAULT_MAX_ITEMS.toString())
LimitParam(query) == ParseInt(OrElse(query.limit, ToDigits(DEFAULT_MAX_ITEMS)))

\* the handler entered by a request with the given method and query string, up
\* to its first suspension: the query parameters, Date.now(), the cache check,
\* and either the cached answer or the call of fetch
Handle(method, query) ==
    /\ resp.pc = "none"
    /\ BagCardinality(inflight) < NumReqs
    /\ LET q == [Fresh EXCEPT !.method = method,
                              !.feedUrl = FeedParam(query),
                              !.limit = LimitParam(query),
                              !.now = clock]
       IN Enter(IF IsFresh(cache, q.now)
                THEN Respond(q, "fresh", 200, Cards(Slice(cache.data, q.limit)))
                ELSE [q EXCEPT !.pc = "fetching", !.fetches = @ + 1])
    /\ UNCHANGED <<variant, clock, cache, file, lastStore, norm, player>>

\* a GET request with the given query string
Get(query) == Handle("GET", query)

\* a GET request of the clients
Start == \E query \in Queries : Get(query)

\* the source never answers: the promise of fetch stays pending
Hang ==
    /\ resp.pc = "none"
    /\ \E q \in Suspended : q.pc = "fetching" /\ Continue(q, Hung)
    /\ UNCHANGED <<variant, clock, cache, file, lastStore, norm, player>>

\* fetch settles with outcome o for invocation q; the rest of the try block
\* runs up to the next suspension or the response
FetchSettled(q0, o) ==
    LET q == [q0 EXCEPT !.src = o.src]
        recipes == Normalized[q.feedUrl][Len(ItemsOf(q.feedUrl, o))][clock]
    IN IF o.throws \/ MapThrows(o)
       THEN /\ Continue(q0, Catch(q, cache))
            /\ UNCHANGED <<cache, lastStore>>
       ELSE /\ cache' = CacheUpdate(recipes, q)
            /\ lastStore' = [set |-> TRUE, recipes |-> recipes, now |-> q.now]
            /\ Continue(q0,
                 IF Durable
                 THEN Await([q EXCEPT !.recipes = recipes, !.overwrites = @ + 1],
                            "writing")
                 ELSE Respond([q EXCEPT !.recipes = recipes, !.overwrites = @ + 1],
                              "refresh", 200, Cards(Slice(recipes, q.limit))))

FetchReturn ==
    /\ resp.pc = "none"
    /\ \E q \in Suspended, o \in Outcomes : q.pc = "fetching" /\ FetchSettled(q, o)
    /\ UNCHANGED <<variant, clock, file, norm, player>>

\* writeFile('/tmp/last.json', JSON.stringify(cache.data)) resolves
WriteDone ==
    /\ resp.pc = "none"
    /\ \E q \in Suspended :
         /\ q.pc = "writing"
         /\ file' = JSONStringify(Slice(q.recipes, Num(DEFAULT_MAX_ITEMS)))
         /\ Continue(q, Respond(q, "refresh", 200, Cards(Slice(q.recipes, q.limit))))
    /\ UNCHANGED <<variant, clock, cache, lastStore, norm, player>>

\* writeFile rejects, leaving the file as it was or partly written
WriteFail ==
    /\ resp.pc = "none"
    /\ \E q \in Suspended :
         /\ q.pc = "writing"
         /\ file' \in {file, CorruptFile}
         /\ Continue(q, Catch(q, cache))
    /\ UNCHANGED <<variant, clock, cache, lastStore, norm, player>>

\* readFile('/tmp/last.json') settles and the inner try block runs
ReadDone ==
    /\ resp.pc = "none"
    /\ \E q \in Suspended :
         /\ q.pc = "reading"
         /\ Continue(q, SnapshotResponse(q, file))
    /\ UNCHANGED <<variant, clock, cache, file, lastStore, norm, player>>

Next ==
    \/ Tick
    \/ Send
    \/ Options
    \/ Start
    \/ Hang
    \/ FetchReturn
    \/ WriteDone
    \/ WriteFail
    \/ ReadDone

Spec == Init /\ [][Next]_vars

\* the event loop resumes an invocation once the promise it awaits has
\* settled, and a finished response is sent; nothing obliges a client to send
\* a request, the clock to reach an instant, or the feed source to answer
FairSpec ==
    /\ Spec
    /\ WF_vars(FetchReturn)
    /\ WF_vars(WriteDone \/ WriteFail)
    /\ WF_vars(ReadDone)
    /\ WF_vars(Send)

\* the Vercel variant on the Node runtime: one in-memory cache, no snapshot
NodeInit ==
    /\ variant = "node"
    /\ clock = 0
    /\ cache = NoCache
    /\ file = NoFile
    /\ inflight = EmptyBag
    /\ resp = Fresh
    /\ lastStore = NoStore
    /\ norm = NoNorm
    /\ player = Unmounted

\* an OPTIONS request to the Vercel variant: the handler never looks at the
\* method, so the request runs as any other
NodeOptions ==
    /\ variant = "node"
    /\ \E query \in Queries : Handle("OPTIONS", query)

NodeNext ==
    \/ Tick
    \/ Send
    \/ NodeOptions
    \/ Start
    \/ Hang
    \/ FetchReturn

NodeSpec == NodeInit /\ [][NodeNext]_vars

\* query strings whose `limit` is not a positive integer: empty, not a number,
\* zero, negative; and one that is
LimitQueries ==
    {Query(None, None),
     Query(None, Some(<<>>)),
     Query(None, Some(<<"a", "l", "l">>)),
     Query(None, Some(<<"0">>)),
     Query(None, Some(<<"-", "1">>)),
     Query(None, Some(<<"2">>))}

\* the edge handler serving clients that send such query strings
LimitInit ==
    /\ variant = "edge"
    /\ clock = 0
    /\ cache = NoCache
    /\ file = NoFile
    /\ inflight = EmptyBag
    /\ resp = Fresh
    /\ lastStore = NoStore
    /\ norm = NoNorm
    /\ player = Unmounted

LimitStart == \E query \in LimitQueries : Get(query)

LimitNext ==
    \/ Tick
    \/ Send
    \/ LimitStart
    \/ Hang
    \/ FetchReturn

LimitSpec == LimitInit /\ [][LimitNext]_vars

\* the normalizer on its own: handed items, it maps and filters them once
NormInit ==
    /\ variant = "edge"
    /\ clock = 0
    /\ cache = NoCache
    /\ file = NoFile
    /\ inflight = EmptyBag
    /\ resp = Fresh
    /\ lastStore = NoStore
    /\ norm \in {[items |-> i.items, at |-> i.at, done |-> FALSE, cards |-> <<>>] :
                   i \in NormInputs(Instants)}
    /\ player = Unmounted

\* items.map(...).filter(...)
NormalizeFeed ==
    /\ ~norm.done
    /\ norm' = [norm EXCEPT !.done = TRUE, !.cards = Normalize(norm.items, norm.at)]
    /\ UNCHANGED <<variant, clock, cache, file, inflight, resp, lastStore, player>>

NormNext == NormalizeFeed

NormSpec == NormInit /\ [][NormNext]_vars

----------------------------------------------------------------------------
(* The Player page *)

\* the list of n recipes /api/feed answers with while the feed is at edition e;
\* edition 0 is the feed at the time of an earlier visit
Recipes(e, n) == [i \in 1..n |-> <<e, i>>]

\* what `await fetch(url)` ... `await response.json()` gives fetchRecipes:
\*   reject  fetch rejects, or the body is not JSON and response.json() rejects
\*   object  the error object of the server
\*   array   a JSON array of recipes, the empty one included
PlayerAnswers ==
    {[kind |-> "reject", data |-> <<>>], [kind |-> "object", data |-> <<>>]}
    \cup {[kind |-> "array", data |-> Recipes(e, n)] :
             e \in 1..MaxEditions, n \in 0..MaxRecipes}

\* Array.isArray(data) && data.length > 0
Usable(a) == a.kind = "array" /\ Len(a.data) > 0

\* the remainder operator of JavaScript on a number and a count: NaN for a
\* zero divisor, the sign of the dividend otherwise
JsRem(a, n) ==
    IF a.nan \/ n = 0 THEN NaN
    ELSE Num(IF a.n >= 0 THEN a.n % n ELSE 0 - ((0 - a.n) % n))

\* the next index running off the end of the list, without the remainder
NextIndexNoWrap(prev, n) == IF prev.nan THEN NaN ELSE Num(prev.n + 1)

\* prev => (prev + 1) % recipes.length
NextIndex(prev, n) == JsRem(IF prev.nan THEN NaN ELSE Num(prev.n + 1), n)

\* prev => prev === 0 ? recipes.length - 1 : prev - 1
PrevIndex(prev, n) ==
    IF prev.nan THEN NaN
    ELSE IF prev.n = 0 THEN Num(n - 1) ELSE Num(prev.n - 1)

\* recipes[currentIndex] is an element of a list of n recipes
Defined(i, n) == ~i.nan /\ 0 <= i.n /\ i.n < n

\* the render after a state update: the loading screen, the empty screen, or
\* the card of recipes[currentIndex], whose `.image` throws when that recipe
\* is undefined; nothing catches it and the page is unmounted
Render(p) ==
    IF ~p.loading /\ Len(p.recipes) > 0 /\ ~Defined(p.currentIndex, Len(p.recipes))
    THEN [p EXCEPT !.failed = TRUE]
    ELSE p

\* the try block of fetchRecipes on a usable answer; on a page that is gone
\* the state setters do nothing and the cache is written all the same
ShowFetched(p, data) ==
    IF p.failed THEN [p EXCEPT !.storage = Some(data)]
    ELSE Render([p EXCEPT !.recipes = data, !.offline = FALSE,
                          !.storage = Some(data),
                          !.loadedFrom = "network", !.event = "answer"])

\* the catch block showing the cached recipes without the offline flag
ShowCachedOnline(p) ==
    IF p.failed THEN p
    ELSE IF p.storage = None THEN [p EXCEPT !.event = "noAnswer"]
    ELSE Render([p EXCEPT !.recipes = p.storage[1],
                          !.loadedFrom = "cache", !.event = "noAnswer"])

\* the catch block of fetchRecipes: the recipes of localStorage, if any
ShowCached(p) ==
    IF p.failed THEN p
    ELSE IF p.storage = None THEN [p EXCEPT !.event = "noAnswer"]
    ELSE Render([p EXCEPT !.recipes = p.storage[1], !.offline = TRUE,
                          !.loadedFrom = "cache", !.event = "noAnswer"])

\* the page is opened: localStorage may hold the recipes of an earlier visit
PlayerInit ==
    /\ variant = "edge"
    /\ clock = 0
    /\ cache = NoCache
    /\ file = NoFile
    /\ inflight = EmptyBag
    /\ resp = Fresh
    /\ lastStore = NoStore
    /\ norm = NoNorm
    /\ player \in {[Unmounted EXCEPT !.storage = s] :
                     s \in {None} \cup {Some(Recipes(0, n)) : n \in 1..MaxRecipes}}

Others == <<variant, clock, cache, file, inflight, resp, lastStore, norm>>

\* the first effects: preview mode is read from the URL, loading ends and the
\* first fetchRecipes is called
Mount ==
    /\ player.loading /\ ~player.failed
    /\ \E preview \in BOOLEAN :
         player' = [player EXCEPT !.isPreview = preview, !.loading = FALSE,
                                  !.pending = 1, !.event = "mount"]
    /\ UNCHANGED Others

\* the page becomes visible again: fetchRecipes is called once more
Refetch ==
    /\ ~player.loading /\ ~player.failed
    /\ player.pending < MaxPending
    /\ player' = [player EXCEPT !.pending = @ + 1, !.event = "refetch"]
    /\ UNCHANGED Others

\* a call of fetchRecipes gets answer a and runs to its end
FetchRecipesSettled(a) ==
    /\ player.pending > 0
    /\ LET p == [player EXCEPT !.pending = @ - 1]
       IN player' = IF Usable(a) THEN ShowFetched(p, a.data) ELSE ShowCached(p)
    /\ UNCHANGED Others

FetchRecipesReturn == \E a \in PlayerAnswers : FetchRecipesSettled(a)

\* the interval of the auto-rotation effect expires
TimerTick ==
    /\ ~player.loading /\ ~player.failed
    /\ Len(player.recipes) > 1 /\ ~player.isPreview
    /\ player' = Render([player EXCEPT
                            !.currentIndex = NextIndex(@, Len(player.recipes)),
                            !.event = "tick"])
    /\ UNCHANGED Others

Keys == {"ArrowLeft", "ArrowRight", "Enter"}

\* a key goes down: the listener is there in preview mode only
KeyDown(key) ==
    /\ ~player.loading /\ ~player.failed
    /\ (player.isPreview /\ key = "ArrowLeft")
          => (player.currentIndex.nan \/ player.currentIndex.n > 0 - MaxBelow)
    /\ player' =
         IF player.isPreview /\ key = "ArrowLeft"
         THEN Render([player EXCEPT
                         !.currentIndex = PrevIndex(@, Len(player.recipes)),
                         !.event = key])
         ELSE IF player.isPreview /\ key = "ArrowRight"
         THEN Render([player EXCEPT
                         !.currentIndex = NextIndex(@, Len(player.recipes)),
                         !.event = key])
         ELSE player
    /\ UNCHANGED Others

KeyPress == \E key \in Keys : KeyDown(key)

\* a click on one of the two navigation buttons, which the card shows in
\* preview mode when there is more than one recipe
Click(button) ==
    /\ ~player.loading /\ ~player.failed
    /\ player.isPreview /\ Len(player.recipes) > 1
    /\ player' = Render([player EXCEPT
                            !.currentIndex =
                                IF button = "previous"
                                THEN PrevIndex(@, Len(player.recipes))
                                ELSE NextIndex(@, Len(player.recipes)),
                            !.event = button])
    /\ UNCHANGED Others

ButtonClick == \E button \in {"previous", "next"} : Click(button)

PlayerNext ==
    \/ Mount
    \/ Refetch
    \/ FetchRecipesReturn
    \/ TimerTick
    \/ KeyPress
    \/ ButtonClick

PlayerSpec == PlayerInit /\ [][PlayerNext]_vars

TypeOK ==
    /\ variant \in {"edge", "durable", "node"}
    /\ clock \in Instants
    /\ cache.exists \in BOOLEAN
    /\ BagCardinality(inflight) <= NumReqs
    /\ \A q \in Suspended : q.pc \in {"fetching", "hung", "writing", "reading"}
    /\ resp.pc \in {"none", "done"}
    /\ norm.done \in BOOLEAN
    /\ player.pending \in 0..MaxPending
    /\ player.offline \in BOOLEAN

----------------------------------------------------------------------------
(* Vocabulary of the properties *)

\* the cache window of the specification: 15 minutes, in milliseconds
WindowMs == 15 * 60 * 1000

\* the first k elements of s
FirstN(s, k) == SubSeq(s, 1, IF k < Len(s) THEN k ELSE Len(s))

\* a limit that names a count of cards
Counts(lim) == ~lim.nan /\ lim.n >= 0

\* this step builds a response
Answers == resp.pc = "none" /\ resp'.pc = "done"

\* this step takes a new GET request as far as its call of fetch
Arrives == BagCardinality(inflight') > BagCardinality(inflight)

\* this step answers a new request at once, without suspending
AnswersAtOnce == Answers /\ inflight' = inflight

\* the cache as a request arriving now finds it
FreshNow == cache.exists /\ clock - cache.timestamp < WindowMs

----------------------------------------------------------------------------
(* C1..C10: cache fallback, freshness, refresh, snapshot, concurrency *)

\* C1: when the fetch, the parse or the normalization throws while an entry
\* is cached, however stale, the invocation answers 200 with the first `limit`
\* cards of that entry, and the step leaves the entry as it was.
C1_FailedRefreshServesCache ==
    [][(/\ Answers
        /\ resp'.caught /\ resp'.snapWrites = 0 /\ resp'.snapReads = 0
        /\ cache.exists)
       => (/\ resp'.status = 200
           /\ resp'.body.kind = "cards"
           /\ Counts(resp'.limit)
                => resp'.body.cards = FirstN(cache.data, resp'.limit.n)
           /\ cache' = cache)]_vars

\* a failed refresh answered from an entry that is past its window, with a
\* limit below the stored count
C1_Witness ==
    /\ resp.pc = "done" /\ resp.path = "fallback" /\ resp.src = "reject"
    /\ cache.exists /\ clock - cache.timestamp >= WindowMs
    /\ resp.limit.n = 1 /\ Len(cache.data) = DEFAULT_MAX_ITEMS
    /\ Len(resp.body.cards) = 1

\* C2: every transient source error (network failure, non-2xx response,
\* malformed XML, a document without rss.channel.item) takes the fallback
\* path: the step in which it is met leaves a populated entry as it was and
\* answers from that entry.
C2_TransientErrorsFallBack ==
    [][(/\ Answers /\ resp'.src \in TransientErrors
        /\ cache.exists /\ cache.data # <<>>)
       => (/\ cache' = cache
           /\ resp'.overwrites = 0
           /\ resp'.path = "fallback"
           /\ resp'.body.kind = "cards"
           /\ Counts(resp'.limit)
                => resp'.body.cards = FirstN(cache.data, resp'.limit.n))]_vars

\* C3: a request arriving while an entry exists and now - timestamp < 15
\* minutes is answered at once with the first `limit` cached cards, calls
\* fetch zero times and leaves the entry unchanged.
C3_FreshCacheServedWithoutFetch ==
    [][(resp.pc = "none" /\ FreshNow)
       => (/\ ~Arrives
           /\ (AnswersAtOnce /\ resp'.path # "options")
                => (/\ resp'.path = "fresh"
                    /\ resp'.status = 200
                    /\ resp'.body.kind = "cards"
                    /\ Counts(resp'.limit)
                         => resp'.body.cards = FirstN(cache.data, resp'.limit.n)
                    /\ resp'.fetches = 0
                    /\ cache' = cache))]_vars

\* a request served from an entry one millisecond before the window ends
C3_Witness ==
    /\ resp.pc = "done" /\ resp.path = "fresh"
    /\ clock - cache.timestamp = WindowMs - 1
    /\ resp.limit.n = 1 /\ Len(cache.data) = DEFAULT_MAX_ITEMS
    /\ Len(resp.body.cards) = 1

\* C4: a request arriving when the cache is absent or now - timestamp >= 15
\* minutes (exactly 15 minutes included) calls fetch exactly once and never
\* again; a successful cycle overwrites the cache exactly once and, in the
\* durable variant, writes the snapshot exactly once.
C4_RefreshSideEffects ==
    [][/\ (resp.pc = "none" /\ ~FreshNow)
          => /\ (AnswersAtOnce => resp'.path = "options")
             /\ Arrives
                  => \E q \in BagToSet(inflight') :
                        /\ inflight' = inflight (+) One(q)
                        /\ q.pc = "fetching" /\ q.now = clock /\ q.fetches = 1
       /\ \A q \in BagToSet(inflight') :
            /\ q.fetches = 1
            /\ q.pc = "writing" => (q.overwrites = 1 /\ q.snapWrites = 1)
            /\ q.pc # "writing" => (q.overwrites = 0 /\ q.snapWrites = 0)
       /\ (resp'.pc = "done" /\ resp'.path \notin {"fresh", "options"})
            => resp'.fetches = 1
       /\ (resp'.pc = "done" /\ resp'.path = "refresh")
            => /\ resp'.overwrites = 1
               /\ resp'.snapWrites = IF Durable THEN 1 ELSE 0]_vars

\* an invocation suspended at its fetch that found the entry exactly 15
\* minutes old
C4_Witness ==
    \E q \in Suspended :
        /\ q.pc = "fetching" /\ q.fetches = 1
        /\ cache.exists /\ q.now - cache.timestamp = WindowMs

\* C5: the response of a successful refresh equals get(limit) of the entry it
\* stored, so it never holds more cards than the cache retains.
C5_RefreshResponseIsCachePrefix ==
    (resp.pc = "done" /\ resp.path = "refresh" /\ Counts(resp.limit))
        => LET stored == FirstN(resp.recipes, DEFAULT_MAX_ITEMS)
           IN /\ resp.body.cards = FirstN(stored, resp.limit.n)
              /\ Len(resp.body.cards) <= Len(stored)

\* C6: the error object is answered only under total unavailability: the
\* source delivered no feed, no entry is cached and no snapshot is readable.
C6_ErrorOnlyWhenNothingAvailable ==
    (resp.pc = "done" /\ resp.body.kind = "error")
        => /\ resp.status >= 500
           /\ resp.src # "rss"
           /\ Durable \/ ~cache.exists
           /\ Durable => file.state # "json"

\* C7: in the durable variant, when the refresh failed with no entry cached
\* and the snapshot file holds a card sequence, the answer is 503 with the
\* first `limit` cards of the snapshot.
C7_SnapshotFallback ==
    [][(Answers /\ resp'.snapReads = 1 /\ file.state = "json")
       => (/\ resp'.status = 503
           /\ resp'.body.kind = "cards"
           /\ resp'.caught
           /\ Counts(resp'.limit)
                => resp'.body.cards = FirstN(file.cards, resp'.limit.n))]_vars

\* a snapshot of 20 cards answered with limit 1
C7_Witness ==
    /\ Durable
    /\ resp.pc = "done" /\ resp.path = "snapshot" /\ resp.status = 503
    /\ file.state = "json" /\ Len(file.cards) = DEFAULT_MAX_ITEMS
    /\ resp.limit.n = 1 /\ Len(resp.body.cards) = 1

\* C8: concurrent refreshes each fetch and each overwrite the cache in one
\* replace: in every state the entry's data and timestamp are those of one
\* refresh, the one whose overwrite ran last.
C8_LastWriterWins ==
    /\ cache.exists = lastStore.set
    /\ cache.exists
         => /\ cache.data = FirstN(lastStore.recipes, DEFAULT_MAX_ITEMS)
            /\ cache.timestamp = lastStore.now
    /\ \A q \in Suspended : q.pc = "fetching" => q.fetches = 1
    /\ (resp.pc = "done" /\ resp.path = "refresh")
         => /\ resp.fetches = 1 /\ resp.overwrites = 1
            /\ ~Durable
                 => /\ cache.data = FirstN(resp.recipes, DEFAULT_MAX_ITEMS)
                    /\ cache.timestamp = resp.now

\* a refresh answers, its entry in the cache, while another invocation that
\* started no later is still suspended at its own fetch
C8_Witness ==
    /\ resp.pc = "done" /\ resp.path = "refresh" /\ resp.overwrites = 1
    /\ cache.timestamp = resp.now
    /\ \E q \in Suspended :
          q.pc = "fetching" /\ q.fetches = 1 /\ q.now < resp.now
                            /\ q.feedUrl # resp.feedUrl

\* C9: every request eventually receives a response, also when the feed
\* source never answers.
C9_EveryRequestAnswered == (inflight # EmptyBag) ~> (resp.pc = "done")

\* C10: after a successful refresh triggered with any limit the cache holds
\* the first min(20, n) normalized cards in feed order, so never more than 20,
\* and a later request inside the window with a limit up to 20 gets
\* min(limit, n) cards without a fetch.
C10_CacheRetainsMaxItems ==
    /\ cache.exists
         => /\ Len(cache.data) <= 20
            /\ Len(cache.data) = Min(20, Len(lastStore.recipes))
            /\ \A i \in 1..Len(cache.data) : cache.data[i] = lastStore.recipes[i]
    /\ (resp.pc = "done" /\ resp.path = "refresh" /\ ~Durable)
         => Len(cache.data) = Min(20, Len(resp.recipes))
    /\ (resp.pc = "done" /\ resp.path = "fresh" /\ Counts(resp.limit)
                         /\ resp.limit.n <= 20)
         => /\ Len(resp.body.cards) = Min(resp.limit.n, Len(lastStore.recipes))
            /\ resp.fetches = 0

\* a refresh asked for one card has left 20 in the cache
C10_Witness ==
    /\ ~Durable
    /\ resp.pc = "done" /\ resp.path = "refresh" /\ resp.limit.n = 1
    /\ Len(resp.recipes) > DEFAULT_MAX_ITEMS
    /\ Len(cache.data) = DEFAULT_MAX_ITEMS

----------------------------------------------------------------------------
(* C11..C20: reads, the lone item, the normalizer, the snapshot *)

\* C11: a request with 1 <= limit <= stored count that is served from the
\* cache (fresh entry, or fallback after a failed refresh) gets exactly the
\* first `limit` stored cards in their order, and the step leaves the stored
\* sequence and its timestamp as they were.
C11_ReadsLeaveCacheUntouched ==
    [][(/\ Answers /\ resp'.path \in {"fresh", "fallback"}
        /\ Counts(resp'.limit)
        /\ 1 <= resp'.limit.n /\ resp'.limit.n <= Len(cache.data))
       => (/\ Len(resp'.body.cards) = resp'.limit.n
           /\ \A i \in 1..resp'.limit.n : resp'.body.cards[i] = cache.data[i]
           /\ cache'.exists
           /\ cache'.data = cache.data
           /\ cache'.timestamp = cache.timestamp)]_vars

\* a fresh entry of 20 cards read with limit 20, some time after it was stored
C11_Witness ==
    /\ resp.pc = "done" /\ resp.path = "fresh"
    /\ resp.limit.n = DEFAULT_MAX_ITEMS /\ Len(cache.data) = DEFAULT_MAX_ITEMS
    /\ resp.body.cards = cache.data
    /\ clock > cache.timestamp

\* C12: when the source delivers an RSS document with exactly one item, the
\* refresh succeeds: the cache is overwritten with exactly one card and the
\* response, once built, is the refresh response with that one card.
C12_LoneItemIsOneElementFeed ==
    [][\A q \in Suspended :
          (/\ q.pc = "fetching"
           /\ FetchSettled(q, [src |-> "rss", throws |-> FALSE, n |-> 1]))
          => (/\ cache'.exists
              /\ Len(cache'.data) = 1
              /\ cache'.timestamp = q.now
              /\ resp'.pc = "done"
                   => (/\ resp'.path = "refresh"
                       /\ resp'.status = 200
                       /\ Len(resp'.body.cards) = 1))]_vars

\* the text of an element or attribute, empty when it is absent
Raw(x) == IF x = None THEN <<>> ELSE x[1]
HasText(x) == Raw(x) # <<>>

\* the media:content entries of an item, a lone entry counted as one
EntriesOf(item) == IF item.content = None THEN <<>> ELSE item.content[1].list

\* an entry of width '1280' or with '1280' in its url
Qualifies(e) ==
    \/ e.width = Some(W1280)
    \/ \E k \in 1..(Len(Raw(e.url)) - 3) : SubSeq(Raw(e.url), k, k + 3) = W1280

\* the item names no image anywhere
NoImageSource(item) ==
    /\ ~HasText(item.thumbnail)
    /\ \A k \in 1..Len(EntriesOf(item)) : ~HasText(EntriesOf(item)[k].url)
    /\ ~HasText(item.enclosure)

\* the url the media:content step yields: that of the first qualifying entry,
\* of the first entry when none qualifies; empty when that url is missing
ContentStep(item) ==
    LET es == EntriesOf(item)
        q == {k \in 1..Len(es) : Qualifies(es[k])}
    IN IF es = <<>> THEN <<>>
       ELSE IF q # {} THEN Raw(es[CHOOSE k \in q : \A m \in q : k <= m].url)
       ELSE Raw(es[1].url)

\* position p of text t lies in a tag: a '<' at or before p with no '>' between
\* it and p, and a '>' at p or later that closes it
InTag(t, p) ==
    \E a \in 1..p :
        /\ t[a] = "<"
        /\ \A k \in (a + 1)..(p - 1) : t[k] # ">"
        /\ \E b \in p..Len(t) : b > a /\ t[b] = ">"

\* the text t without the characters that lie in a tag
Stripped(t) ==
    LET kept == SelectSeq([p \in 1..Len(t) |-> p], LAMBDA p : ~InTag(t, p))
    IN [k \in 1..Len(kept) |-> t[kept[k]]]

\* the normalizer has run and kept a card for every item, in order
Mapped == norm.done /\ Len(norm.cards) = Len(norm.items)

C14_CardsHaveTitleAndImage ==
    norm.done
        => /\ Len(norm.cards) = Len(norm.items)
           /\ \A i \in 1..Len(norm.cards) :
                 /\ norm.cards[i].title # <<>>
                 /\ norm.cards[i].image # <<>>
                 /\ NoImageSource(norm.items[i]) => norm.cards[i].image = PLACEHOLDER
                 /\ ~HasText(norm.items[i].title) => norm.cards[i].title = UNTITLED

\* an item with no title and no image source has become the card
\* 'Untitled Recipe' with the placeholder image
C14_Witness ==
    /\ Mapped
    /\ \E i \in 1..Len(norm.items) :
          /\ ~HasText(norm.items[i].title) /\ NoImageSource(norm.items[i])
          /\ norm.cards[i].title = UNTITLED
          /\ norm.cards[i].image = PLACEHOLDER

\* C15: the image is the thumbnail url whenever there is one; without a
\* thumbnail url it is the url of the media:content step when that step
\* yields one; the enclosure url is the image only when neither step yields
\* a url.
C15_ImagePriorityChain ==
    Mapped
        => \A i \in 1..Len(norm.items) :
             LET it == norm.items[i]
                 img == norm.cards[i].image
             IN /\ HasText(it.thumbnail) => img = Raw(it.thumbnail)
                /\ (~HasText(it.thumbnail) /\ ContentStep(it) # <<>>)
                     => img = ContentStep(it)
                /\ (~HasText(it.thumbnail) /\ ContentStep(it) = <<>>
                                            /\ HasText(it.enclosure))
                     => img = Raw(it.enclosure)
                /\ (HasText(it.enclosure) /\ img = Raw(it.enclosure))
                     => (~HasText(it.thumbnail) /\ ContentStep(it) = <<>>)
                /\ (\E k \in 1..Len(EntriesOf(it)) :
                        HasText(EntriesOf(it)[k].url) /\ img = Raw(EntriesOf(it)[k].url))
                     => ~HasText(it.thumbnail)

\* an item with a thumbnail, a media:content url and an enclosure shows the
\* thumbnail
C15_Witness ==
    /\ Mapped
    /\ \E i \in 1..Len(norm.items) :
          /\ HasText(norm.items[i].thumbnail)
          /\ ContentStep(norm.items[i]) # <<>>
          /\ HasText(norm.items[i].enclosure)
          /\ norm.cards[i].image = Raw(norm.items[i].thumbnail)

\* C16: for an item without a thumbnail url and with media:content entries,
\* the image is the url of the first entry of width '1280' or with '1280' in
\* its url, wherever that entry stands; when no entry qualifies it is the
\* first entry's url; when the entry so chosen has no url, the image comes
\* from the enclosure or is the placeholder.
C16_ContentMediaSelection ==
    Mapped
        => \A i \in 1..Len(norm.items) :
             LET it == norm.items[i]
                 es == EntriesOf(it)
                 img == norm.cards[i].image
                 hits == {k \in 1..Len(es) : Qualifies(es[k])}
                 pick == IF hits = {} THEN 1
                         ELSE CHOOSE k \in hits : \A m \in hits : k <= m
             IN (~HasText(it.thumbnail) /\ es # <<>>)
                  => /\ HasText(es[pick].url) => img = Raw(es[pick].url)
                     /\ ~HasText(es[pick].url)
                          => img = (IF HasText(it.enclosure) THEN Raw(it.enclosure)
                                    ELSE PLACEHOLDER)

\* the second of two entries is 1280 wide and is chosen over the first,
\* which has a url too
C16_Witness ==
    /\ Mapped
    /\ \E i \in 1..Len(norm.items) :
          LET es == EntriesOf(norm.items[i])
          IN /\ ~HasText(norm.items[i].thumbnail)
             /\ Len(es) >= 2
             /\ HasText(es[1].url) /\ ~Qualifies(es[1])
             /\ HasText(es[2].url) /\ es[2].width = Some(W1280)
             /\ es[2].url # es[1].url
             /\ norm.cards[i].image = Raw(es[2].url)

\* C17: the description is the raw text without its tags, cut to its first
\* 160 characters plus '...' when the stripped text is longer than 160 and
\* unchanged otherwise; it has at most 163 characters and no '<' with a
\* '>' after it.
C17_DescriptionSanitized ==
    Mapped
        => \A i \in 1..Len(norm.items) :
             LET t == Stripped(Raw(norm.items[i].description))
                 d == norm.cards[i].description
             IN /\ Len(t) > 160
                     => (d = SubSeq(t, 1, 160) \o <<".", ".", ".">> /\ Len(d) = 163)
                /\ Len(t) <= 160 => d = t
                /\ Len(d) <= 163
                /\ ~\E a \in 1..Len(d), b \in 1..Len(d) :
                        a < b /\ d[a] = "<" /\ d[b] = ">"

\* a text of 161 characters wrapped in a tag comes out 163 characters long
C17_Witness ==
    /\ Mapped
    /\ \E i \in 1..Len(norm.items) :
          LET r == Raw(norm.items[i].description)
          IN /\ Len(r) > 161 /\ r[1] = "<" /\ r[Len(r)] = ">"
             /\ Len(norm.cards[i].description) = 163
             /\ norm.cards[i].description[160] = "x"
             /\ norm.cards[i].description[161] = "."

\* C18: whichever of title, description, link, pubDate and image sources an
\* item lacks, it yields a card with the defaults for the missing fields
\* ('Untitled Recipe', '#', the instant of the mapping), and every item of
\* the feed yields its card at its own position.
C18_PartialItemsKeepDefaults ==
    norm.done
        => /\ Len(norm.cards) = Len(norm.items)
           /\ \A i \in 1..Len(norm.cards) :
                 LET it == norm.items[i]
                     c == norm.cards[i]
                 IN /\ c.title = (IF HasText(it.title) THEN Raw(it.title) ELSE UNTITLED)
                    /\ c.link = (IF HasText(it.link) THEN Raw(it.link) ELSE HASH)
                    /\ c.pubDate = (IF HasText(it.pubDate) THEN Raw(it.pubDate)
                                    ELSE ToISOString(norm.at))
                    /\ ~HasText(it.description) => c.description = <<>>
                    /\ NoImageSource(it) => c.image = PLACEHOLDER

\* an item with nothing in it, between two complete items and mapped after
\* instant 0, has become the card of defaults at its own position
C18_Witness ==
    /\ Mapped /\ Len(norm.items) = 3 /\ norm.at > 0
    /\ norm.items[2].title = None /\ norm.items[2].description = None
    /\ norm.items[2].link = None /\ norm.items[2].pubDate = None
    /\ NoImageSource(norm.items[2])
    /\ norm.cards[2] = [title |-> UNTITLED, image |-> PLACEHOLDER,
                         description |-> <<>>, link |-> HASH,
                         pubDate |-> ToISOString(norm.at)]
    /\ norm.cards[1].link = Raw(norm.items[1].link)
    /\ norm.cards[3].link = Raw(norm.items[3].link)
    /\ norm.cards[1].link # norm.cards[3].link

C20_SnapshotReadOnlyAsLastResort ==
    [][/\ \A q \in BagToSet(inflight') :
            (q.pc = "reading" /\ CopiesIn(q, inflight') > CopiesIn(q, inflight))
               => (~cache.exists /\ ~cache'.exists /\ Durable)
       /\ \A q \in BagToSet(inflight') :
            /\ q.pc = "reading"
                 => (q.caught /\ q.snapReads = 1 /\ q.overwrites = 0 /\ q.fetches = 1)
            /\ q.pc # "reading" => q.snapReads = 0
       /\ resp'.pc = "done"
            => /\ resp'.path \in {"fresh", "refresh", "fallback", "options"}
                    => resp'.snapReads = 0
               /\ resp'.snapReads > 0
                    => (/\ resp'.snapReads = 1 /\ resp'.caught
                        /\ resp'.overwrites = 0 /\ Durable)]_vars

\* a stale entry is served after a failed refresh in the durable variant
\* while a snapshot lies on disk unread
C20_Witness ==
    /\ Durable /\ file.state = "json"
    /\ resp.pc = "done" /\ resp.path = "fallback" /\ resp.snapReads = 0
    /\ cache.exists /\ clock - cache.timestamp >= WindowMs

----------------------------------------------------------------------------
(* Claims C21..C30 *)

\* the feed a request with the given query string names: the parameter when it
\* is given, the fixed default otherwise
Asked(query) == IF query.feed = None THEN DEFAULT_FEED_URL ELSE query.feed[1]

\* every card of the sequence comes from the document served at url: its image
\* and its link, where the item had them, name that url
FromFeed(cards, url) ==
    \A i \in 1..Len(cards) :
       /\ cards[i].link = HASH \/ SubSeq(cards[i].link, 1, Len(url)) = url
       /\ cards[i].image = PLACEHOLDER \/ SubSeq(cards[i].image, 1, Len(url)) = url

\* C21: the `feed` parameter applies to that request only. A refreshing
\* request whose query names feed U calls fetch on U, a refreshing request
\* without the parameter calls fetch on the default feed URL whatever requests
\* came before it, and the cards a successful refresh stores and answers with
\* come from the document at the URL its request asked for.
C21_FeedParamAppliesToRequestOnly ==
    [][/\ \A query \in Queries :
            (Get(query) /\ Arrives)
               => \E q \in BagToSet(inflight') :
                     /\ CopiesIn(q, inflight') > CopiesIn(q, inflight)
                     /\ q.pc = "fetching" /\ q.fetches = 1
                     /\ q.feedUrl = Asked(query)
       /\ (resp.pc = "none" /\ resp'.pc = "done" /\ resp'.path = "refresh")
             => FromFeed(resp'.body.cards, resp'.feedUrl)
       /\ lastStore' # lastStore
             => \E q \in Suspended :
                   q.pc = "fetching" /\ FromFeed(lastStore'.recipes, q.feedUrl)]_vars

\* a request without the parameter is fetching the default feed after a
\* request naming the other feed has refreshed the cache from it
C21_Witness ==
    /\ lastStore.set /\ lastStore.recipes # <<>>
    /\ FromFeed(lastStore.recipes, OTHER_FEED_URL)
    /\ \E q \in Suspended :
          q.pc = "fetching" /\ q.feedUrl = DEFAULT_FEED_URL /\ q.now > lastStore.now

\* C22: in every variant of the feed handler an OPTIONS request is answered at
\* once with an empty HTTP 200, calls fetch never, and leaves the cache and the
\* snapshot file as they were (and is not answered from them).
C22_PreflightTouchesNothing ==
    [][/\ \A q \in BagToSet(inflight') : q.method # "OPTIONS"
       /\ (resp.pc = "none" /\ resp'.pc = "done" /\ resp'.method = "OPTIONS")
             => /\ resp'.status = 200 /\ resp'.body = EmptyBody
                /\ resp'.path = "options" /\ resp'.fetches = 0
                /\ cache' = cache /\ file' = file /\ inflight' = inflight]_vars

\* C25: the timestamp of the cache entry never decreases. Whatever the
\* interleaving of concurrent refreshes, no overwrite replaces an entry by one
\* with an older timestamp, so the freshness window of an entry is never
\* shortened by a refresh that began earlier and completed later.
C25_TimestampNeverDecreases ==
    [][cache.exists => (cache'.exists /\ cache'.timestamp >= cache.timestamp)]_vars

\* C26: a cache entry filled from one feed URL is never served to a request
\* that names another: every card of a response given on the fresh-cache path
\* or on the fallback path comes from the document at the feed URL of the
\* request it answers.
C26_CacheServedOnlyToItsFeed ==
    (resp.pc = "done" /\ resp.path \in {"fresh", "fallback"})
       => FromFeed(resp.body.cards, resp.feedUrl)

\* C27: in the durable variant memory and snapshot agree once the refreshes
\* are over: when a snapshot write completes and leaves no invocation in
\* flight, the snapshot file holds exactly the data of the in-memory entry,
\* whatever the interleaving of the concurrent refreshes was.
C27_SnapshotEqualsMemory ==
    [][(/\ Durable /\ file' # file /\ file'.state = "json"
        /\ inflight' = EmptyBag /\ resp'.path = "refresh")
          => (cache'.exists /\ file' = JSONStringify(cache'.data))]_vars

\* C28: once a refresh has succeeded the in-memory cache is never absent
\* again, and every GET request that arrives from then on is answered with a
\* JSON array and status 200, never with the error object, whatever the
\* outcomes of the later fetches: no step empties the cache; an invocation
\* turns to the snapshot file only while the cache is absent, so one that
\* arrived after the success never does; and every answer given while the
\* cache exists to an invocation that never turned to the file is a 200 array.
C28_CachePersistsAndAnswersSucceed ==
    [][/\ cache.exists => cache'.exists
       /\ \A q \in BagToSet(inflight') :
            (q.pc = "reading" /\ CopiesIn(q, inflight') > CopiesIn(q, inflight))
               => ~cache.exists
       /\ (/\ resp.pc = "none" /\ resp'.pc = "done" /\ resp'.method = "GET"
           /\ cache'.exists /\ resp'.snapReads = 0)
             => (/\ resp'.status = 200 /\ resp'.body.kind = "cards"
                 /\ resp'.path \in {"fresh", "refresh", "fallback"})]_vars

\* a request that arrived a full window after the last successful refresh has
\* had its fetch fail and is answered 200 with the array of the entry, which
\* is still there
C28_Witness ==
    /\ resp.pc = "done" /\ resp.method = "GET" /\ resp.caught
    /\ cache.exists /\ lastStore.set
    /\ resp.now >= cache.timestamp + WindowMs
    /\ resp.status = 200 /\ resp.body = Cards(FirstN(cache.data, resp.limit.n))

\* the count the `limit` parameter stands for when only a positive integer
\* counts: the default for a value that parsed to no number, to zero or to a
\* negative number (an absent or empty value is the default already)
EffectiveLimit(lim) == IF lim.nan \/ lim.n <= 0 THEN DEFAULT_MAX_ITEMS ELSE lim.n

\* the cards an answer is cut from: those just fetched on the refresh path,
\* the entry's on the fresh-cache and fallback paths
Available ==
    IF resp.path = "refresh" THEN resp.recipes ELSE cache.data

\* C30: a `limit` that is absent, empty, not a number, zero or negative counts
\* as the default 20: every array answer is the prefix of the available cards,
\* in feed order, of length min(effective limit, cards available), so it is
\* never empty or trimmed at the end while cards are available.
C30_BadLimitMeansDefault ==
    (resp.pc = "done" /\ resp.path \in {"fresh", "refresh", "fallback"})
       => resp.body = Cards(FirstN(Available, EffectiveLimit(resp.limit)))

\* C23: offline mode of the Player. On a page that is mounted, when a call of
\* fetchRecipes fails or is answered with something that is not a non-empty
\* array while localStorage holds cached recipes, the recipes of the page
\* become the cached ones and the offline flag is set; a usable answer
\* replaces the recipes, is cached and clears the flag; nothing else touches
\* the flag, so it is set exactly when the recipes of the page were last
\* loaded from localStorage.
C23_OfflineExactlyWhenFromCache ==
    [][/\ \A a \in PlayerAnswers :
            (FetchRecipesSettled(a) /\ ~player.failed)
               => /\ (~Usable(a) /\ player.storage # None)
                        => (/\ player'.recipes = player.storage[1]
                            /\ player'.offline
                            /\ player'.storage = player.storage)
                  /\ (~Usable(a) /\ player.storage = None)
                        => (/\ player'.recipes = player.recipes
                            /\ player'.offline = player.offline)
                  /\ Usable(a)
                        => (/\ player'.recipes = a.data /\ ~player'.offline
                            /\ player'.storage = Some(a.data))
       /\ player'.offline # player.offline => player'.pending < player.pending
       /\ player'.offline <=> player'.loadedFrom = "cache"]_vars

\* a page that showed the recipes of a usable answer has had a later call
\* fail, and shows the recipes last cached with the offline flag set
C23_Witness ==
    /\ player.offline /\ player.event = "noAnswer" /\ ~player.failed
    /\ player.storage = Some(Recipes(MaxEditions, MaxRecipes))
    /\ player.recipes = Recipes(MaxEditions, MaxRecipes)
    /\ ~Defined(player.currentIndex, 1)

\* the index of the player as a number
Index(p) == p.currentIndex.n

\* C24: the two navigation modes of the Player. Outside preview mode the timer
\* runs while there is more than one recipe and each tick moves the index to
\* the next recipe, from the last one to the first; nothing else changes the
\* index there, key presses least of all. In preview mode the timer never
\* fires; on a list that is not empty ArrowRight moves the index one up and
\* from the last recipe to the first, ArrowLeft one down and from the first
\* recipe to the last, and every change of the index is one of these two.
C24_NavigationModes ==
    [][LET n == Len(player.recipes)
           up == IF Index(player) = n - 1 THEN Num(0) ELSE Num(Index(player) + 1)
           down == IF Index(player) = 0 THEN Num(n - 1) ELSE Num(Index(player) - 1)
       IN /\ TimerTick
               => (/\ ~player.isPreview /\ n > 1
                   /\ player'.currentIndex = up /\ player'.recipes = player.recipes)
          /\ (~player.isPreview /\ player'.currentIndex # player.currentIndex)
               => (n > 1 /\ player'.currentIndex = up /\ player'.event = "tick")
          /\ \A key \in Keys : (KeyDown(key) /\ ~player.isPreview) => player' = player
          /\ (player.isPreview /\ n > 0)
               => /\ KeyDown("ArrowRight") => player'.currentIndex = up
                  /\ KeyDown("ArrowLeft") => player'.currentIndex = down
                  /\ player'.currentIndex # player.currentIndex
                        => (/\ player'.currentIndex \in {up, down}
                            /\ player'.event \in {"ArrowLeft", "ArrowRight",
                                                  "previous", "next"})
          /\ player'.isPreview => player'.event # "tick"]_vars

\* outside preview mode a tick has just taken the index from the last of
\* MaxRecipes recipes to the first
C24_Witness ==
    /\ ~player.isPreview /\ ~player.failed /\ player.event = "tick"
    /\ Len(player.recipes) = MaxRecipes
    /\ player.currentIndex = Num(0)

\* C29: whenever the recipe list of the Player is not empty the current index
\* is an integer with 0 <= index < recipes.length, so the recipe shown is
\* always defined and no render throws, after any sequence of fetch results,
\* timer ticks, button clicks and arrow-key presses.
C29_IndexWithinList ==
    /\ Len(player.recipes) > 0
          => Defined(player.currentIndex, Len(player.recipes))
    /\ ~player.failed

====
